---- MODULE Spec2Model ----
(***************************************************************************)
(* simple-webscan: scan orchestration and duplex assembly.                 *)
(*                                                                         *)
(* The model follows simple_webscan/scanner.py, simple_webscan/state.py    *)
(* and the request handlers of simple_webscan/app.py.  Every HTTP request  *)
(* that starts a background task is one slot of Requests.  A handler runs  *)
(* as one atomic step (handlers are coroutines of the single event loop);  *)
(* the background task it adds runs in a worker thread and is modelled     *)
(* statement by statement, so that every interleaving of the threads'      *)
(* reads and writes of the shared module state is explored.  The SANE      *)
(* library and the scanner hardware are the environment: each call into    *)
(* them either returns or raises, as a nondeterministic choice.            *)
(***************************************************************************)
EXTENDS Integers, Sequences, FiniteSets, TLC

\* ------------------------------------------------------------------ bounds
NumRequests == 3        \* HTTP requests that start a background task
MaxPages == 2           \* sheets an ADF run can deliver
MaxNameLen == 4         \* pieces of a request filename (NameSpec)

Requests == 1..NumRequests
Startup == 0            \* the lifespan hook's call of update_scanners
Tasks == {Startup} \cup Requests
Devices == {"d1", "d2"}
Sources == {"ADF"}       \* the feeder: any number of sheets, none included
Resolutions == {300}
Modes == {"Gray"}
\* A file name is the sequence of its pieces: "/" and "." stand for
\* themselves, every other piece is a run of characters without either.
Pdf == <<".", "pdf">>                     \* ".pdf"
Backside == <<"_backside">> \o Pdf        \* "_backside.pdf"
Basenames == {<<"a">> \o Pdf}
Timestamps == {"2024-01-02_03_04_05"}     \* datetime.now(), formatted
Cwd == << <<"srv">> >>                    \* the working directory of the process

\* ------------------------------------------------------------------ values
\* A file name below scandir: a base name followed by `back` copies of the
\* text "_backside.pdf".
RECURSIVE Name(_, _)
Name(b, k) == IF k = 0 THEN b ELSE Name(b, k - 1) \o Backside
NoName == <<>>                  \* Python None / the empty filename ""
NoTask == -1                     \* lock not held
NoErr == "none"
\* the filenames the requests of this model ask for
ReqFilenames == {Name(b, 0) : b \in Basenames}
\* any text a request can carry as its filename, up to MaxNameLen pieces
Alphabet == {"/", ".", "report", "pdf", "PDF"}
RawFilenames == UNION {[1..n -> Alphabet] : n \in 0..MaxNameLen}

\* dict helpers
Get(dict, k, default) == IF k \in DOMAIN dict THEN dict[k] ELSE default
Put(dict, k, v) == [x \in DOMAIN dict \cup {k} |-> IF x = k THEN v ELSE dict[x]]
Del(dict, k) == [x \in DOMAIN dict \ {k} |-> dict[x]]

\* the local variables of a task that is not running
NoLocals == [target |-> NoName, output |-> <<>>, frontside_file |-> NoName,
             front |-> <<>>, back |-> <<>>, r |-> {},
             \* what the hardware did in list_scanners: the devices that
             \* sane.get_devices() returned, and those whose open or option
             \* listing raised
             found |-> {}, failing |-> {}]

VARIABLES
    \* simple_webscan/state.py
    globals_lock, sane_lock, scanners, isBusy, scan_list_update, has_front,
    last_scan_options, last_scan_filenames,
    \* the environment
    sane_inited,        \* sane.init() done and sane.exit() not yet
    files,              \* scandir: file name -> sequence of pages
    heap,               \* the ScanOptions objects, by the request that built them
    \* per request / task
    kind,               \* which task the request started
    pc,                 \* where the task is
    data,               \* the ScanOptions object the task was given
    exc,                \* the exception the task is raising
    loc,                \* its local variables, named as in scanner.py
    \* history
    hwAccess,           \* the task has acquired the hardware lock
    discarded,          \* devices whose pending state /done discarded
    afterDone           \* backside requests sent for a discarded device

locks == <<globals_lock, sane_lock>>
registry == <<scanners, scan_list_update>>
duplex == <<has_front, last_scan_options, last_scan_filenames>>
shared == <<locks, registry, isBusy, duplex>>
env == <<sane_inited, files, heap>>
history == <<hwAccess, discarded, afterDone>>
vars == <<shared, env, kind, pc, data, exc, loc, history>>

\* the device a task works on: data.scanner
Dev(t) == heap[data[t]].scanner

Init ==
    /\ globals_lock = NoTask
    /\ sane_lock = NoTask
    /\ scanners = {}
    /\ isBusy = {}
    /\ scan_list_update = FALSE
    /\ has_front = {}
    /\ last_scan_options = [x \in {} |-> 0]
    /\ last_scan_filenames = [x \in {} |-> NoName]
    /\ sane_inited = FALSE
    /\ files = [x \in {} |-> <<>>]
    /\ heap = [x \in {} |-> 0]
    /\ kind = [t \in Tasks |-> IF t = Startup THEN "startup" ELSE "none"]
    /\ pc = [t \in Tasks |-> IF t = Startup THEN "us_lock" ELSE "unsent"]
    /\ data = [t \in Tasks |-> 0]
    /\ exc = [t \in Tasks |-> NoErr]
    /\ loc = [t \in Tasks |-> NoLocals]
    /\ hwAccess = [t \in Tasks |-> FALSE]
    /\ discarded = {}
    /\ afterDone = [t \in Tasks |-> FALSE]

\* ------------------------------------------------------------------ control
Ended == {"done", "raised", "rejected"}

\* task t moves to `to`; a task that ends drops its local variables
Goto(t, to, newloc) ==
    /\ pc' = [pc EXCEPT ![t] = to]
    /\ loc' = [loc EXCEPT ![t] = IF to \in Ended THEN NoLocals ELSE newloc]

\* task t raises e: the exception is handled by nobody in scanner.py, so it
\* passes through the enclosing blocks at `to` ("raised" when there are none)
Raise(t, e, to) ==
    /\ exc' = [exc EXCEPT ![t] = e]
    /\ Goto(t, to, loc[t])

\* (an exception that is caught and dropped)
RaisedSwallowed(e, next) == next
\* where a task goes after a block that may have raised e
Raised(e, next) == IF e = NoErr THEN next ELSE "raised"

\* ------------------------------------------------------------------ locks
\* (a scan that does not wait for the hardware lock)
SaneLockFreeUnguarded == TRUE
\* threading.Lock: `with lock:` blocks until the lock is free
SaneLockFree == sane_lock = NoTask
GlobalsLockFree == globals_lock = NoTask
\* (acquire and release without a with block: an exception skips the release)
WithExitNoRelease(holder, e) == IF e = NoErr THEN NoTask ELSE holder
\* leaving a `with lock:` block releases the lock, also when e is raised
WithExit(holder, e) == NoTask

\* `with state.sane_lock:` entered by task t at `from`
SaneAcquire(t, from, to) ==
    /\ pc[t] = from
    /\ SaneLockFree
    /\ sane_lock' = t
    /\ hwAccess' = [hwAccess EXCEPT ![t] = TRUE]
    /\ Goto(t, to, loc[t])
    /\ UNCHANGED <<globals_lock, registry, isBusy, duplex, env, kind, data, exc,
                   discarded, afterDone>>

\* the end of a `with state.sane_lock:` block
SaneRelease(t, from, to) ==
    /\ pc[t] = from
    /\ sane_lock' = WithExit(sane_lock, exc[t])
    /\ Goto(t, Raised(exc[t], to), loc[t])
    /\ UNCHANGED <<globals_lock, registry, isBusy, duplex, env, kind, data, exc,
                   history>>

\* A `with state.globals_lock:` block is entered in the step of its first
\* statement and left in the step of its last one: taking a lock commutes
\* with the steps of the other threads that come before it, releasing it with
\* those that come after, so no interleaving is lost.

\* using_sane, scanner.py:22: sane.init() returns or raises
SaneInit(t, from, to, unwind) ==
    /\ pc[t] = from
    /\ \/ /\ sane_inited' = TRUE
          /\ Goto(t, to, loc[t])
          /\ exc' = exc
       \/ /\ sane_inited' = sane_inited
          /\ Raise(t, "SaneError", unwind)
    /\ UNCHANGED <<shared, files, heap, kind, data, history>>

\* (a wrapper that forgets the teardown)
SaneExitSkipped(t, from, to) ==
    /\ pc[t] = from
    /\ sane_inited' = sane_inited
    /\ Goto(t, to, loc[t])
    /\ UNCHANGED <<shared, files, heap, kind, data, exc, history>>
\* using_sane, scanner.py:25-27: finally sane.exit()
SaneExit(t, from, to) ==
    /\ pc[t] = from
    /\ sane_inited' = FALSE
    /\ Goto(t, to, loc[t])
    /\ UNCHANGED <<shared, files, heap, kind, data, exc, history>>

\* ------------------------------------------------------------------ update_scanners
\* list_scanners, scanner.py:50-79: the loop over the enumerated devices.  A
\* device that is opened and lists its options is entered into the dict
\* (scanner.py:70); one that raises is logged (scanner.py:77-78) and the loop
\* goes on with the next device.
RECURSIVE ListLoop(_, _, _)
ListLoop(devices, rest, failing) ==
    IF rest = {} THEN devices
    ELSE LET device == CHOOSE x \in rest : TRUE IN
         ListLoop(IF device \in failing THEN devices ELSE devices \cup {device},
                  rest \ {device}, failing)
\* (an enumeration that gives up at the first device that raises)
list_scanners_abort(found, failing) == IF failing = {} THEN found ELSE {}
list_scanners(found, failing) == ListLoop({}, found, failing)

\* scanner.py:87
us_lock(t) == SaneAcquire(t, "us_lock", "us_init")

\* scanner.py:82-84,88
us_init(t) == SaneInit(t, "us_init", "us_list", "us_unlock")

\* scanner.py:84: sane.get_devices() raises, or every enumerated device is
\* opened and the ones that raise are left out
us_list(t) ==
    /\ pc[t] = "us_list"
    /\ \/ /\ \E found \in SUBSET Devices : \E failing \in SUBSET found :
                Goto(t, "us_exit", [loc[t] EXCEPT !.r = list_scanners(found, failing),
                                                  !.found = found,
                                                  !.failing = failing])
          /\ exc' = exc
       \/ Raise(t, "SaneError", "us_exit")
    /\ UNCHANGED <<shared, env, kind, data, history>>

\* scanner.py:82,88
us_exit(t) == SaneExit(t, "us_exit", "us_unlock")

\* (the snapshot swapped before the hardware lock is given back)
us_unlock_late(t) ==
    /\ pc[t] = "us_unlock"
    /\ Goto(t, Raised(exc[t], "us_swap"), loc[t])
    /\ UNCHANGED <<shared, env, kind, data, exc, history>>
\* scanner.py:87-88: the with block ends; an exception leaves update_scanners
\* (and update_scanlist, which has no handler)
us_unlock(t) == SaneRelease(t, "us_unlock", "us_swap")

\* scanner.py:89-91: under globals_lock the snapshot is replaced; then
\* update_scanners returns, to the lifespan hook or to update_scanlist
us_swap(t) ==
    /\ pc[t] = "us_swap"
    /\ GlobalsLockFree
    /\ scanners' = loc[t].r
    /\ globals_lock' = WithExit(t, NoErr)
    /\ Goto(t, IF kind[t] = "refresh" THEN "ul_clear" ELSE "done", loc[t])
    /\ UNCHANGED <<sane_lock, scan_list_update, isBusy, duplex, env, kind, data, exc,
                   history>>

\* ------------------------------------------------------------------ update_scanlist
\* the assignments to state.scan_list_update under globals_lock,
\* scanner.py:95-96 and :100-101
SetFlag(t, from, to, value) ==
    /\ pc[t] = from
    /\ GlobalsLockFree
    /\ scan_list_update' = value
    /\ globals_lock' = WithExit(t, NoErr)
    /\ Goto(t, to, loc[t])
    /\ UNCHANGED <<sane_lock, scanners, isBusy, duplex, env, kind, data, exc, history>>

\* scanner.py:95-98: the flag is set, update_scanners() is called
ul_set(t) == SetFlag(t, "ul_set", "us_lock", TRUE)

\* scanner.py:100-101: the flag is cleared, update_scanlist returns
ul_clear(t) == SetFlag(t, "ul_clear", "done", FALSE)

\* ------------------------------------------------------------------ handlers
\* The lifespan hook has run update_scanners: the application serves requests.
\* If it raised, the application never starts.
Serving == pc[Startup] = "done"

\* the next request slot
Unsent(t) == pc[t] = "unsent" /\ \A u \in Requests : u < t => pc[u] # "unsent"

\* app.py:50-57, GET /list_scanners: adds the task update_scanlist
get_scanners(t) ==
    /\ Serving
    /\ Unsent(t)
    /\ kind' = [kind EXCEPT ![t] = "refresh"]
    /\ Goto(t, "ul_set", loc[t])
    /\ UNCHANGED <<shared, env, data, exc, history>>

\* ScannerModels.py:31-36, the request body of POST /scan
ScanOptions(d, res, src, mode, fn) ==
    [scanner |-> d, resolution |-> res, source |-> src, mode |-> mode, filename |-> fn]

\* app.py:113-130, POST /scan: adds the task perform_scan(data).  (For a device
\* that is not in state.scanners the handler raises KeyError at app.py:120:
\* no task runs and nothing changes.)
start_scan(t) ==
    /\ Serving
    /\ Unsent(t)
    /\ \E d \in scanners, res \in Resolutions, src \in Sources, mode \in Modes,
          fn \in ReqFilenames :
          /\ heap' = Put(heap, t, ScanOptions(d, res, src, mode, fn))
          /\ discarded' = discarded \ {d}
    /\ data' = [data EXCEPT ![t] = t]
    /\ kind' = [kind EXCEPT ![t] = "scan"]
    /\ Goto(t, "ps_lock", loc[t])
    /\ UNCHANGED <<shared, sane_inited, files, exc, hwAccess, afterDone>>

\* app.py:133-146, POST /scan_backside/<scanner_name>: under globals_lock, adds
\* the task add_backside(last_scan_options[device]); the argument is the
\* object the dict refers to, not a copy.  An unknown device or a device
\* without an entry raises KeyError: the request fails and no task runs.
backside_scan(t) ==
    /\ Serving
    /\ Unsent(t)
    /\ GlobalsLockFree
    /\ kind' = [kind EXCEPT ![t] = "backside"]
    /\ \E d \in Devices :
          IF d \in scanners /\ d \in DOMAIN last_scan_options
             THEN /\ data' = [data EXCEPT ![t] = last_scan_options[d]]
                  /\ Goto(t, "ab_check", loc[t])
                  /\ exc' = exc
                  /\ afterDone' = [afterDone EXCEPT ![t] = d \in discarded]
             ELSE /\ Raise(t, "KeyError", "rejected")
                  /\ UNCHANGED <<data, afterDone>>
    /\ UNCHANGED <<shared, env, hwAccess, discarded>>

\* a frontside scan of d that has been requested and has not ended
FrontsideInFlight(d) ==
    \E t \in Requests : kind[t] = "scan" /\ pc[t] \notin Ended /\ Dev(t) = d

\* app.py:149-160, POST /done/<scanner_name>: under globals_lock, discards the
\* device from has_front, and nothing else.  (For an unknown device the handler
\* raises KeyError and changes nothing.)
reset_front(d) ==
    /\ Serving
    /\ GlobalsLockFree
    /\ d \in scanners
    /\ has_front' = has_front \ {d}
    /\ discarded' = IF d \in has_front /\ ~FrontsideInFlight(d)
                       THEN discarded \cup {d} ELSE discarded
    /\ UNCHANGED <<locks, registry, isBusy, last_scan_options, last_scan_filenames,
                   env, kind, pc, data, exc, loc, hwAccess, afterDone>>

\* ------------------------------------------------------------------ perform_scan
\* scanner.py:150
ps_lock(t) == SaneAcquire(t, "ps_lock", "ps_init")

\* scanner.py:145,151
ps_init(t) == SaneInit(t, "ps_init", "ps_busy", "ps_unlock")

\* busy_device, scanner.py:38
ps_busy(t) ==
    /\ pc[t] = "ps_busy"
    /\ isBusy' = isBusy \cup {Dev(t)}
    /\ Goto(t, "ps_open", loc[t])
    /\ UNCHANGED <<locks, registry, duplex, env, kind, data, exc, history>>

\* (In the operators below an argument is bound to its value, x \in {arg},
\* before it is used, so that it is computed once.)

\* str.split("/"): the components of a path, empty ones included
RECURSIVE SplitPath(_, _)
SplitPath(text, component) ==
    CHOOSE result \in
        {IF rest = <<>> THEN <<cur>>
         ELSE IF Head(rest) = "/" THEN <<cur>> \o SplitPath(Tail(rest), <<>>)
         ELSE SplitPath(Tail(rest), Append(cur, Head(rest))) :
            rest \in {text}, cur \in {component}} : TRUE

\* Path.resolve(), scanner.py:124: empty and "." components are dropped, ".."
\* leaves the directory reached so far (the root is its own parent)
RECURSIVE Normalize(_, _)
Normalize(reached, components) ==
    CHOOSE result \in
        {IF parts = <<>> THEN stack
         ELSE Normalize(IF Head(parts) \in {<<>>, <<".">>} THEN stack
                        ELSE IF Head(parts) = <<".", ".">>
                                THEN SubSeq(stack, 1, Len(stack) - 1)
                                ELSE Append(stack, Head(parts)),
                        Tail(parts)) :
            stack \in {reached}, parts \in {components}} : TRUE
\* a relative path starts at the working directory, an absolute one at the root
Resolve(fn) ==
    Normalize(IF fn # <<>> /\ Head(fn) = "/" THEN <<>> ELSE Cwd, SplitPath(fn, <<>>))

\* Path.name, scanner.py:125: the last component, "" for the root
PathName(path) == IF path = <<>> THEN <<>> ELSE path[Len(path)]

\* Path.suffix, scanner.py:126: the name from its last "." on, unless that is
\* its first or its last character
Suffix(name) ==
    LET dots == {i \in 1..Len(name) : name[i] = "."} IN
    IF dots = {} THEN <<>>
    ELSE LET i == CHOOSE x \in dots : \A y \in dots : y <= x IN
         IF 1 < i /\ i < Len(name) THEN SubSeq(name, i, Len(name)) ELSE <<>>

\* (".pdf" put in the place of the suffix)
NewSuffixReplaced(old) == Pdf
\* scanner.py:127: target.suffix + '.pdf'
NewSuffix(old) == old \o Pdf

\* Path.with_suffix, scanner.py:127: the suffix of the name is replaced by
\* the new one; a path with an empty name raises ValueError (NoName here)
WithSuffix(name, suffix) ==
    IF name = <<>> THEN NoName
    ELSE SubSeq(name, 1, Len(name) - Len(Suffix(name))) \o suffix

\* scanner.py:126-127: ".pdf" is appended to a name whose suffix is not ".pdf"
ForcePdf(name) ==
    CHOOSE result \in
        {IF Suffix(target) # Pdf THEN WithSuffix(target, NewSuffix(Suffix(target)))
         ELSE target : target \in {name}} : TRUE

\* scanner.py:124-127: the target of a scan
TargetName(fn, now) ==
    ForcePdf(PathName(Resolve(IF fn # <<>> THEN fn ELSE <<"Scan_", now>> \o Pdf)))

\* scanner.py:118-127: the device is opened and set up (or raises), the
\* target is computed from options.filename as it is now (with_suffix raises
\* ValueError when no name is left)
ps_open(t) ==
    /\ pc[t] = "ps_open"
    /\ \/ \E now \in Timestamps :
             LET target == TargetName(heap[data[t]].filename, now) IN
             IF target = NoName
                THEN Raise(t, "ValueError", "ps_unbusy")
                ELSE /\ Goto(t, "ps_acquire", [loc[t] EXCEPT !.target = target])
                     /\ exc' = exc
       \/ Raise(t, "DeviceUnavailable", "ps_unbusy")
    /\ UNCHANGED <<shared, env, kind, data, history>>

\* the sheets a run can deliver: scanner.py:130-135
PageCounts(src) == IF src = "ADF" THEN 0..MaxPages ELSE {1}
\* page n of the scan of task t
Page(t, n) == <<t, n>>

\* scanner.py:130-135: the pages are pulled into the in-memory document, or
\* the device raises on the way and the with block is left
ps_acquire(t) ==
    /\ pc[t] = "ps_acquire"
    /\ \/ /\ \E n \in PageCounts(heap[data[t]].source) :
                Goto(t, "ps_save", [loc[t] EXCEPT !.output = [i \in 1..n |-> Page(t, i - 1)]])
          /\ exc' = exc
       \/ Raise(t, "ScanFailed", "ps_unbusy")
    /\ UNCHANGED <<shared, env, kind, data, history>>

\* scanner.py:137-142: a document with pages is saved and its name returned,
\* an empty one gives None
ps_save(t) ==
    /\ pc[t] = "ps_save"
    /\ IF Len(loc[t].output) > 0
          THEN /\ files' = Put(files, loc[t].target, loc[t].output)
               /\ Goto(t, "ps_unbusy", [loc[t] EXCEPT !.output = <<>>])
          ELSE /\ files' = files
               /\ Goto(t, "ps_unbusy", [loc[t] EXCEPT !.output = <<>>, !.target = NoName])
    /\ UNCHANGED <<shared, sane_inited, heap, kind, data, exc, history>>

\* (the marker removed after the call instead of in a finally clause)
BusyRemoveNoFinally(busy, d, e) == IF e = NoErr THEN busy \ {d} ELSE busy
\* busy_device, scanner.py:41-43: finally isBusy.remove(devicename), whether
\* f returned or raised e
BusyRemove(busy, d, e) == busy \ {d}

\* scanner.py:41-43
ps_unbusy(t) ==
    /\ pc[t] = "ps_unbusy"
    /\ isBusy' = BusyRemove(isBusy, Dev(t), exc[t])
    /\ Goto(t, "ps_exit", loc[t])
    /\ UNCHANGED <<locks, registry, duplex, env, kind, data, exc, history>>

\* scanner.py:145,151
ps_exit(t) == SaneExit(t, "ps_exit", "ps_unlock")

\* (a result that is recorded without the test)
AfterScanUnchecked(tgt) == "ps_opts"
\* scanner.py:152: `if target:` after a scan that returned; None ends
\* perform_scan, and add_backside at scanner.py:165
AfterScan(tgt) == IF tgt = NoName THEN "done" ELSE "ps_opts"

\* scanner.py:150-152: the with block ends; an exception leaves perform_scan
\* and add_backside
ps_unlock(t) == SaneRelease(t, "ps_unlock", AfterScan(loc[t].target))

\* scanner.py:154-155: globals_lock is taken; the dict keeps a reference to
\* the object data
ps_opts(t) ==
    /\ pc[t] = "ps_opts"
    /\ GlobalsLockFree
    /\ globals_lock' = t
    /\ last_scan_options' = Put(last_scan_options, Dev(t), data[t])
    /\ Goto(t, "ps_file", loc[t])
    /\ UNCHANGED <<sane_lock, registry, isBusy, has_front, last_scan_filenames, env,
                   kind, data, exc, history>>

\* (the result path not recorded)
ps_file_skipped(t) ==
    /\ pc[t] = "ps_file"
    /\ Goto(t, "ps_front", loc[t])
    /\ UNCHANGED <<shared, env, kind, data, exc, history>>
\* scanner.py:156
ps_file(t) ==
    /\ pc[t] = "ps_file"
    /\ last_scan_filenames' = Put(last_scan_filenames, Dev(t), loc[t].target)
    /\ Goto(t, "ps_front", loc[t])
    /\ UNCHANGED <<locks, registry, isBusy, has_front, last_scan_options, env,
                   kind, data, exc, history>>

\* scanner.py:157-158: the last statement of the block; globals_lock is
\* released and perform_scan returns target, to the task runner or to
\* add_backside at scanner.py:165
ps_front(t) ==
    /\ pc[t] = "ps_front"
    /\ has_front' = has_front \cup {Dev(t)}
    /\ globals_lock' = WithExit(globals_lock, NoErr)
    /\ Goto(t, IF kind[t] = "backside" THEN "ab_front" ELSE "done", loc[t])
    /\ UNCHANGED <<sane_lock, registry, isBusy, last_scan_options,
                   last_scan_filenames, env, kind, data, exc, history>>

\* ------------------------------------------------------------------ add_backside
\* (the lookup result used without the test)
NoFrontsideUnchecked(f) == FALSE
\* scanner.py:162: `if not (frontside_file := ...get(data.scanner))`
NoFrontside(f) == f = NoName

\* scanner.py:162-163: the pending frontside is looked up, without a lock;
\* without one FileExistsError is raised
ab_check(t) ==
    /\ pc[t] = "ab_check"
    /\ LET f == Get(last_scan_filenames, Dev(t), NoName) IN
          IF NoFrontside(f)
             THEN Raise(t, "FileExistsError", "raised")
             ELSE /\ exc' = exc
                  /\ Goto(t, "ab_setname", [loc[t] EXCEPT !.frontside_file = f])
    /\ UNCHANGED <<shared, env, kind, data, history>>

\* scanner.py:164: f"{frontside_file.name}_backside.pdf"
BacksideName(f) == f \o Backside

\* scanner.py:164-165: the filename of the object data is overwritten in
\* place, then perform_scan(data) is called
ab_setname(t) ==
    /\ pc[t] = "ab_setname"
    /\ heap' = [heap EXCEPT ![data[t]].filename = BacksideName(loc[t].frontside_file)]
    /\ Goto(t, "ps_lock", loc[t])
    /\ UNCHANGED <<shared, sane_inited, files, kind, data, exc, history>>

\* scanner.py:166,169: pymupdf.open(frontside_file), FileNotFoundError if
\* the file is gone
ab_front(t) ==
    /\ pc[t] = "ab_front"
    /\ IF loc[t].frontside_file \in DOMAIN files
          THEN /\ Goto(t, "ab_back", [loc[t] EXCEPT !.front = files[loc[t].frontside_file]])
               /\ exc' = exc
          ELSE Raise(t, "FileNotFoundError", "raised")
    /\ UNCHANGED <<shared, env, kind, data, history>>

\* scanner.py:167,170: pymupdf.open(backside_file); backside_file is what
\* perform_scan returned
ab_back(t) ==
    /\ pc[t] = "ab_back"
    /\ IF loc[t].target \in DOMAIN files
          THEN /\ Goto(t, "ab_merge", [loc[t] EXCEPT !.back = files[loc[t].target]])
               /\ exc' = exc
          ELSE Raise(t, "FileNotFoundError", "raised")
    /\ UNCHANGED <<shared, env, kind, data, history>>

\* (the page counts not compared)
MismatchIgnored(f, b) == FALSE
\* scanner.py:171
Mismatch(f, b) == Len(f) # Len(b)

\* scanner.py:174-178: the page numbers of front in order are paired with the
\* page numbers of back in reverse, and each pair appends front page n and
\* back page o to the result
Enumerate(doc) == [i \in 1..Len(doc) |-> i - 1]
ReversedNot(s) == s      \* (the backside pages taken in feed order)
Reversed(s) == [i \in 1..Len(s) |-> s[Len(s) + 1 - i]]
Zip(a, b) ==
    [i \in 1..(IF Len(a) < Len(b) THEN Len(a) ELSE Len(b)) |-> <<a[i], b[i]>>]
RECURSIVE InsertPairs(_, _, _)
InsertPairs(pairs, f, b) ==
    IF pairs = <<>> THEN <<>>
    ELSE <<f[pairs[1][1] + 1], b[pairs[1][2] + 1]>> \o InsertPairs(Tail(pairs), f, b)
MergePages(f, b) == InsertPairs(Zip(Enumerate(f), Reversed(Enumerate(b))), f, b)

\* scanner.py:171-179: on a mismatch nothing is written; otherwise the merged
\* document is saved over the frontside file.  The documents are closed.
ab_merge(t) ==
    /\ pc[t] = "ab_merge"
    /\ files' = IF Mismatch(loc[t].front, loc[t].back)
                   THEN files
                   ELSE Put(files, loc[t].frontside_file,
                            MergePages(loc[t].front, loc[t].back))
    /\ Goto(t, "ab_unlink", [loc[t] EXCEPT !.front = <<>>, !.back = <<>>])
    /\ UNCHANGED <<shared, sane_inited, heap, kind, data, exc, history>>

\* scanner.py:180: backside_file.unlink(), FileNotFoundError if it is gone
ab_unlink(t) ==
    /\ pc[t] = "ab_unlink"
    /\ IF loc[t].target \in DOMAIN files
          THEN /\ files' = Del(files, loc[t].target)
               /\ exc' = exc
               /\ Goto(t, "ab_discard", loc[t])
          ELSE /\ files' = files
               /\ Raise(t, "FileNotFoundError", "raised")
    /\ UNCHANGED <<shared, sane_inited, heap, kind, data, history>>

\* scanner.py:181-182: globals_lock is taken
ab_discard(t) ==
    /\ pc[t] = "ab_discard"
    /\ GlobalsLockFree
    /\ globals_lock' = t
    /\ has_front' = has_front \ {Dev(t)}
    /\ Goto(t, "ab_pop", loc[t])
    /\ UNCHANGED <<sane_lock, registry, isBusy, last_scan_options,
                   last_scan_filenames, env, kind, data, exc, history>>

\* scanner.py:183: dict.pop without a default, KeyError if the key is gone;
\* the block ends either way, and add_backside returns or raises
ab_pop(t) ==
    /\ pc[t] = "ab_pop"
    /\ IF Dev(t) \in DOMAIN last_scan_filenames
          THEN /\ last_scan_filenames' = Del(last_scan_filenames, Dev(t))
               /\ globals_lock' = WithExit(globals_lock, NoErr)
               /\ exc' = exc
               /\ Goto(t, "done", loc[t])
          ELSE /\ last_scan_filenames' = last_scan_filenames
               /\ globals_lock' = WithExit(globals_lock, "KeyError")
               /\ Raise(t, "KeyError", "raised")
    /\ UNCHANGED <<sane_lock, registry, isBusy, has_front, last_scan_options, env,
                   kind, data, history>>

\* ------------------------------------------------------------------ specification
\* a step of the background task (or of the lifespan hook) t
TaskStep(t) ==
    \/ us_lock(t) \/ us_init(t) \/ us_list(t) \/ us_exit(t) \/ us_unlock(t)
    \/ us_swap(t) \/ ul_set(t) \/ ul_clear(t)
    \/ ps_lock(t) \/ ps_init(t) \/ ps_busy(t) \/ ps_open(t) \/ ps_acquire(t)
    \/ ps_save(t) \/ ps_unbusy(t) \/ ps_exit(t) \/ ps_unlock(t)
    \/ ps_opts(t) \/ ps_file(t) \/ ps_front(t)
    \/ ab_check(t) \/ ab_setname(t) \/ ab_front(t) \/ ab_back(t) \/ ab_merge(t)
    \/ ab_unlink(t) \/ ab_discard(t) \/ ab_pop(t)

\* a request arrives and its handler runs
Handler ==
    \/ \E t \in Requests : get_scanners(t) \/ start_scan(t) \/ backside_scan(t)
    \/ \E d \in Devices : reset_front(d)

Next == (\E t \in Tasks : TaskStep(t)) \/ Handler

Spec == Init /\ [][Next]_vars

\* The behaviours in which the hardware has at most the device d1 attached,
\* with the same fairness: the task that holds the hardware lock waits for
\* nothing but the hardware, so it eventually takes its next step.
LiveDevices == {"d1"}
HwStep(t) ==
    \/ us_init(t) \/ us_list(t) \/ us_exit(t) \/ us_unlock(t)
    \/ ps_init(t) \/ ps_busy(t) \/ ps_open(t) \/ ps_acquire(t) \/ ps_save(t)
    \/ ps_unbusy(t) \/ ps_exit(t) \/ ps_unlock(t)
LiveNext == Next /\ \A t \in Tasks : loc'[t].found \subseteq LiveDevices
LiveSpec == Init /\ [][LiveNext]_vars /\ WF_vars(LiveNext /\ \E t \in Tasks : HwStep(t))

\* The scans of a single request whose filename is any text: the application
\* has started with the device d1 in its registry and POST /scan has been
\* received; perform_scan runs.
ScanStep(t) ==
    \/ ps_lock(t) \/ ps_init(t) \/ ps_busy(t) \/ ps_open(t) \/ ps_acquire(t)
    \/ ps_save(t) \/ ps_unbusy(t) \/ ps_exit(t) \/ ps_unlock(t)
    \/ ps_opts(t) \/ ps_file(t) \/ ps_front(t)
NameInit ==
    /\ globals_lock = NoTask
    /\ sane_lock = NoTask
    /\ scanners = {"d1"}
    /\ isBusy = {}
    /\ scan_list_update = FALSE
    /\ has_front = {}
    /\ last_scan_options = [x \in {} |-> 0]
    /\ last_scan_filenames = [x \in {} |-> NoName]
    /\ sane_inited = FALSE
    /\ files = [x \in {} |-> <<>>]
    /\ \E res \in Resolutions, src \in Sources, mode \in Modes, fn \in RawFilenames :
          heap = [x \in {1} |-> ScanOptions("d1", res, src, mode, fn)]
    /\ kind = [t \in Tasks |-> IF t = Startup THEN "startup"
                               ELSE IF t = 1 THEN "scan" ELSE "none"]
    /\ pc = [t \in Tasks |-> IF t = Startup THEN "done"
                             ELSE IF t = 1 THEN "ps_lock" ELSE "unsent"]
    /\ data = [t \in Tasks |-> IF t = 1 THEN 1 ELSE 0]
    /\ exc = [t \in Tasks |-> NoErr]
    /\ loc = [t \in Tasks |-> NoLocals]
    /\ hwAccess = [t \in Tasks |-> FALSE]
    /\ discarded = {}
    /\ afterDone = [t \in Tasks |-> FALSE]
NameNext == \E t \in {1} : ScanStep(t)
NameSpec == NameInit /\ [][NameNext]_vars

\* ------------------------------------------------------------------ properties
\* where a task is between taking and releasing the hardware lock
HwPcs == {"us_init", "us_list", "us_exit", "us_unlock",
          "ps_init", "ps_busy", "ps_open", "ps_acquire", "ps_save",
          "ps_unbusy", "ps_exit", "ps_unlock"}
InHardware(t) == pc[t] \in HwPcs
\* where a task is inside the call that busy_device wraps: the marker has been
\* added and the finally clause has not run yet
ScanPcs == {"ps_open", "ps_acquire", "ps_save", "ps_unbusy"}
Scanning(t) == pc[t] \in ScanPcs

\* C1: at most one hardware operation (a scan on any device, or a device
\* enumeration) is in flight at any time, whatever tasks have been submitted.
C1_HardwareExclusive == Cardinality({t \in Tasks : InHardware(t)}) <= 1

\* a scan of one device is acquiring pages while a scan of another device and
\* a refresh wait for the hardware lock
C1_Witness ==
    \E t, u, w \in Requests :
        /\ pc[t] = "ps_acquire" /\ pc[u] = "ps_lock" /\ pc[w] = "us_lock"
        /\ Dev(t) # Dev(u)

\* C2: a device is in isBusy exactly while a scan of it is executing: from the
\* step that marks it, before the device is opened, to the finally clause that
\* runs when the scan has returned or raised.
C2_BusyWhileScanning ==
    \A d \in Devices : d \in isBusy <=> \E t \in Requests : Scanning(t) /\ Dev(t) = d

\* a scan of d has raised and d is not busy, while the next scan of d runs and
\* d is busy again
C2_Witness ==
    \E t, u \in Requests :
        /\ pc[t] = "raised" /\ exc[t] = "ScanFailed"
        /\ pc[u] = "ps_save" /\ Dev(u) = Dev(t) /\ Dev(u) \in isBusy

\* C3: the hardware lock and the busy markers are held only while an
\* operation runs, and every operation that takes them gives them back,
\* whether it returns or raises.
C3_AlwaysReleased ==
    /\ [](sane_lock # NoTask => InHardware(sane_lock))
    /\ [](\A d \in isBusy : \E t \in Requests : Scanning(t) /\ Dev(t) = d)
    /\ (sane_lock # NoTask) ~> (sane_lock = NoTask)
    /\ (isBusy # {}) ~> (isBusy = {})

\* a scan has raised in the middle of the acquisition, and the lock and the
\* marker are free again
C3_Witness ==
    \E t \in Requests :
        /\ pc[t] = "raised" /\ exc[t] = "ScanFailed" /\ hwAccess[t]
        /\ sane_lock = NoTask /\ isBusy = {}

\* where a task is between the return of the backside scan and the end of
\* add_backside: the merge, the unlink and the clearing of the pending state
MergePcs == {"ab_front", "ab_back", "ab_merge", "ab_unlink", "ab_discard", "ab_pop"}
Merging(t) == pc[t] \in MergePcs
\* task t takes a step
Moves(t) == pc'[t] # pc[t]

\* C4: when the frontside and the backside document have N pages each, the
\* document saved over the frontside path has 2N pages: page 2n is frontside
\* page n and page 2n+1 is backside page N-1-n.
C4_MergeOrder ==
    [][\A t \in Requests :
        (pc[t] = "ab_merge" /\ Moves(t) /\ Len(loc[t].front) = Len(loc[t].back)) =>
            LET F == loc[t].front
                B == loc[t].back
                N == Len(F)
                M == Get(files', loc[t].frontside_file, <<>>)
            IN  /\ Len(M) = 2 * N
                /\ \A n \in 0..(N - 1) :
                      M[2 * n + 1] = F[n + 1] /\ M[2 * n + 2] = B[N - n]]_vars

\* fronts [F0,F1] of request f and backs [B0,B1] of request t have been merged
\* into [F0,B1,F1,B0]
C4_Witness ==
    \E t, f \in Requests :
        /\ t # f /\ pc[t] = "ab_unlink"
        /\ Get(files, loc[t].frontside_file, <<>>)
              = <<Page(f, 0), Page(t, 1), Page(f, 1), Page(t, 0)>>

\* C5: when the page counts differ, the merge step writes no file (the
\* frontside file keeps its content) and raises nothing, and after the unlink
\* step the backside file does not exist.
C5_MismatchKeepsFront ==
    [][\A t \in Requests :
        /\ (pc[t] = "ab_merge" /\ Moves(t) /\ Len(loc[t].front) # Len(loc[t].back)) =>
              files' = files /\ pc'[t] = "ab_unlink" /\ exc'[t] = NoErr
        /\ (pc[t] = "ab_unlink" /\ Moves(t)) => loc[t].target \notin DOMAIN files']_vars

\* a frontside of two pages and a backside of one page: the merge was skipped,
\* the frontside is as request f scanned it, the backside is gone, and the task
\* goes on to clear the pending state
C5_Witness ==
    \E t, f \in Requests :
        /\ t # f /\ pc[t] = "ab_discard" /\ exc[t] = NoErr
        /\ Get(files, loc[t].frontside_file, <<>>) = <<Page(f, 0), Page(f, 1)>>
        /\ loc[t].target \notin DOMAIN files

\* the failures that mean "no pending frontside": the handler finds no entry
\* for the device (KeyError, app.py:139) or add_backside finds no frontside
\* file (FileExistsError, scanner.py:163)
NoPendingFrontside(t) ==
    \/ pc[t] = "rejected" /\ exc[t] = "KeyError"
    \/ pc[t] = "raised" /\ exc[t] = "FileExistsError"

\* C6: a backside request for a device without a pending frontside on record
\* fails with the no-pending-frontside error, and the request never takes the
\* hardware lock (so it neither initializes SANE nor marks the device busy).
C6_NoFrontsideNoHardware ==
    /\ [](\A t \in Requests : NoPendingFrontside(t) => ~hwAccess[t])
    /\ [][\A t \in Requests :
            /\ (pc[t] = "ab_check" /\ Moves(t)
                   /\ Dev(t) \notin DOMAIN last_scan_filenames) =>
                  NoPendingFrontside(t)'
            /\ (pc[t] = "unsent" /\ kind'[t] = "backside" /\ ~NoPendingFrontside(t)') =>
                  heap[data'[t]].scanner \in DOMAIN last_scan_options]_vars

\* the pending frontside of the device has been merged and cleared; the next
\* backside request has failed in add_backside without touching the hardware
C6_Witness ==
    \E t \in Requests :
        /\ kind[t] = "backside" /\ pc[t] = "raised" /\ exc[t] = "FileExistsError"
        /\ ~hwAccess[t] /\ sane_lock = NoTask

\* C7: a backside request sent after /done has discarded the device's pending
\* frontside, with no frontside scan in between, fails without hardware access
\* and without merging.
C7_DoneDiscardsPending ==
    \A t \in Requests : afterDone[t] => ~hwAccess[t] /\ pc[t] \in {"ab_check", "raised"}

\* C8: a scan that fails records nothing: from the failure on the task changes
\* neither has_front nor last_scan_filenames nor any file, it never reaches the
\* statements that record a result, and when it has raised its device is not
\* busy.
C8_FailedScanKeepsState ==
    [][\A t \in Requests :
        (kind[t] \in {"scan", "backside"} /\ InHardware(t) /\ Moves(t)
            /\ exc'[t] # NoErr) =>
              /\ UNCHANGED <<has_front, last_scan_filenames, files>>
              /\ pc'[t] \in HwPcs \cup {"raised"}
              /\ (pc'[t] = "raised" => Dev(t) \notin isBusy')]_vars

\* a backside scan of a device in AwaitingBackside has failed in the middle of
\* the acquisition: the device is still awaiting its backside, with the same
\* frontside path, and is not busy
C8_Witness ==
    \E t \in Requests :
        /\ kind[t] = "backside" /\ pc[t] = "raised" /\ exc[t] = "ScanFailed"
        /\ Dev(t) \in has_front /\ Dev(t) \notin isBusy
        /\ Get(last_scan_filenames, Dev(t), NoName) \in ReqFilenames
        /\ DOMAIN files = ReqFilenames

\* C9: no two tasks are inside the merge/clear section of add_backside for the
\* same device at the same time.
C9_NoMergeRace ==
    \A t, u \in Requests :
        (t # u /\ Merging(t) /\ Merging(u)) => Dev(t) # Dev(u)

\* C10: the refreshing flag is true only while a refresh is running.
C10_FlagClearedOnExit ==
    scan_list_update => \E t \in Requests : kind[t] = "refresh" /\ pc[t] \notin Ended

\* where a refresh started by update_scanlist is between setting the flag
\* (scanner.py:96) and clearing it (scanner.py:101)
RefreshPcs == {"us_lock", "us_init", "us_list", "us_exit", "us_unlock", "us_swap",
               "ul_clear"}
Refreshing(t) == kind[t] = "refresh" /\ pc[t] \in RefreshPcs

\* C11: whenever at least one refresh started by update_scanlist is in
\* progress the refreshing flag is true; it becomes false only when the last
\* refresh in progress has finished.
C11_FlagWhileRefreshing ==
    (\E t \in Requests : Refreshing(t)) => scan_list_update

\* C12: a refresh leaves out the devices whose open or option listing raised
\* and goes on: the snapshot it installs holds exactly the enumerated devices
\* that did not raise.  The snapshot changes only in that one step, from the
\* complete old map to the complete new one.
C12_SnapshotOmitsFailing ==
    /\ [][\A t \in Tasks :
            (pc[t] = "us_list" /\ Moves(t) /\ loc'[t].found # {}) =>
                pc'[t] = "us_exit" /\ exc'[t] = NoErr]_vars
    /\ [][\A t \in Tasks :
            (pc[t] = "us_swap" /\ Moves(t)) =>
                scanners' = {d \in loc[t].found : d \notin loc[t].failing}]_vars
    /\ [][scanners' # scanners =>
            \E t \in Tasks : pc[t] = "us_swap" /\ Moves(t)]_vars

\* the registry held both devices; a refresh enumerated both, d2 raised, and
\* the snapshot now holds d1 alone
C12_Witness ==
    \E t \in Requests :
        /\ kind[t] = "refresh" /\ pc[t] = "ul_clear"
        /\ loc[t].found = Devices /\ loc[t].failing = {"d2"}
        /\ scanners = {"d1"}
        /\ \E u \in Requests : kind[u] = "scan" /\ Dev(u) = "d2"

\* a scan that has returned None: the feeder gave no page, nothing was raised
\* and the task is on its way out of the hardware section
ZeroPages(t) ==
    /\ pc[t] \in {"ps_unbusy", "ps_exit", "ps_unlock"}
    /\ exc[t] = NoErr
    /\ loc[t].target = NoName

\* C13: a scan that yields zero pages is not an error: the step that finds the
\* document empty writes no file, and from there to its end the task raises
\* nothing, leaves has_front, last_scan_filenames and the files as they are,
\* and ends normally with its device not busy; the same for a backside scan.
C13_ZeroPagesNoChange ==
    /\ [][\A t \in Requests :
            (pc[t] = "ps_save" /\ Moves(t) /\ Len(loc[t].output) = 0) =>
                files' = files /\ ZeroPages(t)']_vars
    /\ [][\A t \in Requests :
            (ZeroPages(t) /\ Moves(t)) =>
                /\ UNCHANGED <<has_front, last_scan_filenames, files>>
                /\ exc'[t] = NoErr
                /\ ZeroPages(t)' \/ pc'[t] = "done"
                /\ pc'[t] = "done" => Dev(t) \notin isBusy']_vars

\* the backside scan of a device in AwaitingBackside found the feeder empty
\* and has ended normally: the device still awaits its backside, the frontside
\* path and file are as the frontside scan left them, no other file exists
C13_Witness ==
    \E t, f \in Requests :
        /\ kind[f] = "scan" /\ pc[f] = "done"
        /\ kind[t] = "backside" /\ pc[t] = "done" /\ exc[t] = NoErr /\ hwAccess[t]
        /\ \A u \in Requests \ {t, f} : pc[u] = "unsent"
        /\ Dev(t) \in has_front /\ Dev(t) \notin isBusy
        /\ Get(last_scan_filenames, Dev(t), NoName) \in ReqFilenames
        /\ DOMAIN files = ReqFilenames
        /\ files[last_scan_filenames[Dev(t)]] = <<Page(f, 0)>>

\* what the filename rule says, piece by piece
EndsWithPdf(name) ==
    Len(name) >= 2 /\ SubSeq(name, Len(name) - 1, Len(name)) = Pdf
\* the name has the suffix ".pdf": it ends in ".pdf" and is more than that
HasPdfSuffix(name) == Len(name) >= 3 /\ EndsWithPdf(name)
\* the text after the last "/"
BaseOf(fn) ==
    LET slashes == {i \in 1..Len(fn) : fn[i] = "/"} IN
    IF slashes = {} THEN fn
    ELSE SubSeq(fn, (CHOOSE x \in slashes : \A y \in slashes : y <= x) + 1, Len(fn))
\* a filename whose last component is a name (not empty, "." or "..")
Plain(fn) == BaseOf(fn) \notin {<<>>, <<".">>, <<".", ".">>}
Expected(fn, now) ==
    IF fn = <<>> THEN <<"Scan_", now>> \o Pdf
    ELSE IF HasPdfSuffix(BaseOf(fn)) THEN BaseOf(fn) ELSE BaseOf(fn) \o Pdf
\* a single component that is a name: the file lies directly in scandir
InScanDir(name) ==
    /\ name \notin {<<>>, <<".">>, <<".", ".">>}
    /\ \A i \in 1..Len(name) : name[i] # "/"

RecordPcs == {"ps_file", "ps_front"}
Recording(t) == pc[t] \in RecordPcs

\* C15: the step that ends the recording block of a scan of d leaves
\* last_scan_options[d] = the request, last_scan_filenames[d] = the result
\* path and d in has_front; and while a task is inside the block no other
\* task reads the fields of d, so none sees only some of them updated.
C15_RecordedAtOnce ==
    /\ [][\A t \in Requests :
            (pc[t] = "ps_front" /\ Moves(t)) =>
                /\ last_scan_options'[Dev(t)] = data[t]
                /\ last_scan_filenames'[Dev(t)] = loc[t].target
                /\ Dev(t) \in has_front']_vars
    /\ [][\A t, u \in Requests :
            (t # u /\ Recording(t) /\ pc[u] = "ab_check" /\ Dev(u) = Dev(t)) =>
                ~Moves(u)]_vars

\* C16: when add_backside ends after a backside scan that delivered pages
\* (merged or not), its device is not in has_front, has no entry in
\* last_scan_filenames, and the backside file is gone.
C16_IdleAfterBackside ==
    [][\A t \in Requests :
        (Merging(t) /\ pc'[t] \in Ended) =>
            /\ Dev(t) \notin has_front'
            /\ Dev(t) \notin DOMAIN last_scan_filenames'
            /\ loc[t].target \notin DOMAIN files']_vars

\* where a task is at a statement inside a `with state.globals_lock:` block
LockedPcs == {"us_swap", "ul_set", "ul_clear", "ps_opts", "ps_file", "ps_front",
              "ab_discard", "ab_pop"}
\* the step is taken by a request handler: no task moves
HandlerStep == \A t \in Tasks : pc'[t] = pc[t] \/ pc[t] = "unsent"

\* C17: every step that changes the registry snapshot, the refreshing flag,
\* the busy set, has_front, last_scan_filenames or last_scan_options is a step
\* inside a `with state.globals_lock:` block, of a task or of a handler.
C17_MutationsUnderLock ==
    [][<<scanners, scan_list_update, isBusy, has_front, last_scan_filenames,
         last_scan_options>>' #
       <<scanners, scan_list_update, isBusy, has_front, last_scan_filenames,
         last_scan_options>> =>
          \/ \E t \in Tasks :
                /\ pc[t] \in LockedPcs /\ Moves(t)
                /\ globals_lock \in {NoTask, t} /\ globals_lock' \in {NoTask, t}
          \/ HandlerStep /\ globals_lock = NoTask]_vars

\* a task that has been started and has not ended
Running(t) == pc[t] \notin Ended \cup {"unsent"}
\* a task that stands before a `with lock:` whose lock is held
Blocked(t) ==
    \/ pc[t] \in {"us_lock", "ps_lock"} /\ ~SaneLockFree
    \/ pc[t] \in {"us_swap", "ul_set", "ul_clear", "ps_opts", "ab_discard"}
          /\ ~GlobalsLockFree

\* C18: no task holds globals_lock and sane_lock together; sane_lock is taken
\* only by a task outside every globals_lock block, and the statements inside
\* a globals_lock block are executed only by a task that does not hold
\* sane_lock; whoever holds a lock is running and waits for no lock, so the
\* tasks can never block each other for good.
C18_LocksNeverNested ==
    /\ [](\A t \in Tasks : ~(globals_lock = t /\ sane_lock = t))
    /\ [][\A t \in Tasks :
            (sane_lock' = t /\ sane_lock # t) =>
                pc[t] \notin LockedPcs /\ globals_lock # t /\ globals_lock' # t]_vars
    /\ [][\A t \in Tasks :
            (pc[t] \in LockedPcs /\ Moves(t)) => sane_lock # t /\ sane_lock' # t]_vars
    /\ [](\A t \in Tasks :
            (sane_lock = t \/ globals_lock = t) => Running(t) /\ ~Blocked(t))

\* a refresh holds the hardware lock and lists the devices, a scan is inside
\* its recording block and holds globals_lock, and a second scan has left the
\* hardware and waits for globals_lock
C18_Witness ==
    \E t, u, w \in Requests :
        /\ sane_lock = t /\ pc[t] = "us_list"
        /\ globals_lock = u /\ pc[u] = "ps_front"
        /\ pc[w] = "ps_opts" /\ kind[w] = "scan"

\* where a task is between sane.init() and sane.exit()
InitedPcs == {"us_list", "us_exit", "ps_busy", "ps_open", "ps_acquire", "ps_save",
              "ps_unbusy", "ps_exit"}

\* C19: a hardware operation runs in the order lock, init, (busy,) operation,
\* (unbusy,) teardown, unlock: SANE is initialized only by the holder of the
\* hardware lock and only when it is not initialized; a device is marked busy
\* and scanned only while SANE is initialized; the lock is given back only
\* after the busy marker is cleared and SANE is torn down, also by a task
\* that is raising.
C19_HardwareOrder ==
    /\ [](sane_inited => sane_lock # NoTask /\ pc[sane_lock] \in InitedPcs)
    /\ [](isBusy # {} => sane_inited)
    /\ [](\A t \in Requests :
            pc[t] \in {"ps_open", "ps_acquire", "ps_save"} =>
                sane_lock = t /\ sane_inited /\ Dev(t) \in isBusy)
    /\ [][\A t \in Tasks :
            (pc[t] \in {"us_init", "ps_init"} /\ Moves(t)) =>
                sane_lock = t /\ ~sane_inited]_vars
    /\ [][sane_inited' /\ ~sane_inited =>
            \E t \in Tasks : pc[t] \in {"us_init", "ps_init"} /\ Moves(t)]_vars
    /\ [][(sane_lock # NoTask /\ sane_lock' = NoTask) =>
            ~sane_inited /\ isBusy = {}]_vars
    /\ [](\A t \in Tasks : pc[t] = "raised" => sane_lock # t)

\* a scan has raised in the middle of the acquisition; the next operation has
\* taken the lock and initialized SANE again
C19_Witness ==
    \E t, u \in Requests :
        /\ pc[t] = "raised" /\ exc[t] = "ScanFailed"
        /\ sane_lock = u /\ pc[u] = "us_list" /\ sane_inited /\ isBusy = {}

\* C20: a request object, once submitted, is never modified: no step changes
\* the filename, resolution, source or mode of an existing ScanOptions object,
\* in particular not of the one recorded in last_scan_options.
C20_RequestImmutable ==
    [][\A r \in DOMAIN heap : heap'[r] = heap[r]]_vars

\* C21: in every reachable state every device in has_front has an entry in
\* last_scan_filenames and an entry in last_scan_options that refers to a
\* request for that device, so a backside request for a device shown as
\* awaiting its backside finds its request and its frontside path.
C21_PendingHasRecords ==
    \A d \in has_front :
        /\ d \in DOMAIN last_scan_filenames /\ last_scan_filenames[d] # NoName
        /\ d \in DOMAIN last_scan_options
        /\ last_scan_options[d] \in DOMAIN heap
        /\ heap[last_scan_options[d]].scanner = d

\* a backside scan of d has merged and cleared the pending state and a later
\* frontside scan of d has followed: d awaits its backside again, with the new
\* request and path on record
C21_Witness ==
    \E t, u \in Requests :
        /\ t < u /\ kind[t] = "backside" /\ pc[t] = "done" /\ hwAccess[t]
        /\ kind[u] = "scan" /\ pc[u] = "done" /\ Dev(u) = Dev(t)
        /\ Dev(u) \in has_front
        /\ last_scan_options[Dev(u)] = u
        /\ last_scan_filenames[Dev(u)] \in ReqFilenames

\* the name of a backside temporary: <frontside>_backside.pdf
IsBacksideTemp(name) ==
    /\ Len(name) > Len(Backside)
    /\ SubSeq(name, Len(name) - Len(Backside) + 1, Len(name)) = Backside

\* C22: in every reachable state a device that is in has_front and not busy
\* has a frontside document as its last_scan_filenames entry, never a
\* backside temporary.
C22_PendingIsFrontside ==
    \A d \in has_front \ isBusy :
        d \in DOMAIN last_scan_filenames => ~IsBacksideTemp(last_scan_filenames[d])

====
